---- MODULE Spec2Model ----
(***************************************************************************)
(* Model of bwt.py: Burrows-Wheeler index construction (get_bwt, get_occ,  *)
(* get_count, get_sa, get_bwt_data) and the mismatch-tolerant backward     *)
(* search (use_occ, update_range, bwt_inexact_match).                      *)
(*                                                                         *)
(* Strings are sequences of symbols; symbols are the integers 0..MaxSym    *)
(* compared by <, as Python compares characters by code point.  Python     *)
(* offsets are 0-based: the Python element s[i] is the TLA+ element        *)
(* s[i + 1].  Offsets held in the state (sa, begin, end) are the Python    *)
(* values.                                                                 *)
(***************************************************************************)
EXTENDS Integers, Sequences, FiniteSets, TLC

\* ---- bounds of the model ------------------------------------------------
MaxSym == 2
MaxRefLen == 2
MaxQueryLen == 2
MaxMismatches == 1

\* ---- program constants --------------------------------------------------
\* EOS = "\0": the smallest character there is.
EOS == 0

Symbols == 0..MaxSym

Range(s) == {s[i] : i \in 1..Len(s)}

Strings(n) == UNION {[1..m -> Symbols] : m \in 0..n}

\* ---- Python built-ins the code uses --------------------------------------

\* a < b on two strings: the first differing symbol decides, and a proper
\* prefix is smaller.
StrLess(a, b) ==
    \/ \E k \in 1..Len(a) :
          /\ k <= Len(b)
          /\ a[k] < b[k]
          /\ \A j \in 1..(k - 1) : a[j] = b[j]
    \/ /\ Len(a) < Len(b)
       /\ \A j \in 1..Len(a) : a[j] = b[j]

\* sorted(table) for a list of strings.  Python's sort is stable: equal
\* rows keep their order.
sorted(table) ==
    LET n == Len(table)
        Before(i, j) == \/ StrLess(table[i], table[j])
                        \/ (table[i] = table[j] /\ i < j)
        rank(i) == Cardinality({j \in 1..n : Before(j, i)})
    IN  [r \in 1..n |-> table[CHOOSE i \in 1..n : rank(i) = r - 1]]

\* list.index(x): the 0-based position of the first element equal to x.
index(list, x) ==
    (CHOOSE i \in 1..Len(list) :
        /\ list[i] = x
        /\ \A j \in 1..(i - 1) : list[j] # x) - 1

\* list[lo:hi] for 0 <= lo: a slice is cut off at the end of the list.
Slice(list, lo, hi) ==
    LET stop == IF hi < Len(list) THEN hi ELSE Len(list)
    IN  [i \in 1..(stop - lo) |-> list[lo + i]]

\* sorted(set(results)) for a list of integers.
sorted_set(results) ==
    LET S == Range(results)
    IN  [r \in 1..Cardinality(S) |->
            CHOOSE x \in S : Cardinality({y \in S : y < x}) = r - 1]

\* ---- index construction ---------------------------------------------------

\* s[i:] + s[:i]
Rotation(s, i) == SubSeq(s, i + 1, Len(s)) \o SubSeq(s, 1, i)

\* s[i:]
Suffix(s, i) == SubSeq(s, i + 1, Len(s))

\* row[-1] of a row of the sorted rotation table
get_bwt_first_column(row) == row[1]

LastOfRow(row) == row[Len(row)]

get_bwt(s) ==
    LET table == sorted([i \in 1..Len(s) |-> Rotation(s, i - 1)])
    IN  [i \in 1..Len(s) |-> LastOfRow(table[i])]

get_occ(bwt) ==
    [letter \in Range(bwt) |->
        [i \in 1..Len(bwt) |->
            Cardinality({j \in 1..i : bwt[j] = letter})]]

get_count(s) ==
    [letter \in Range(s) |->
        Cardinality({i \in 1..Len(s) : s[i] < letter})]

get_sa(s) ==
    LET suffixes == [i \in 1..Len(s) |-> Suffix(s, i - 1)]
        ordered  == sorted(suffixes)
    IN  [i \in 1..Len(s) |-> index(suffixes, ordered[i])]

\* assert eos not in reference
assert_skipped(ref, eos) == TRUE

AssertEosNotInReference(ref, eos) == eos \notin Range(ref)

\* The 5-tuple get_bwt_data returns, for a reference that passed the assert.
get_bwt_data(ref, eos) ==
    LET s == Append(ref, eos)
        bwt == get_bwt(s)
    IN  [alphabet |-> Range(ref),
         bwt      |-> bwt,
         occ      |-> get_occ(bwt),
         count    |-> get_count(SubSeq(s, 1, Len(s) - 1)),
         sa       |-> get_sa(s)]

\* bwt_data=None
None == [alphabet |-> {}, bwt |-> <<>>, occ |-> <<>>, count |-> <<>>, sa |-> <<>>]

\* ---- search helpers -------------------------------------------------------

\* use_occ without its first case: occ[letter][-1] is the last entry
use_occ_wraps(occ, letter, i, length) ==
    IF i = -1 \/ i = length THEN occ[letter][Len(occ[letter])]
    ELSE occ[letter][i + 1]

use_occ(occ, letter, i, length) ==
    IF i = -1 THEN 0
    ELSE IF i = length THEN occ[letter][Len(occ[letter])]
    ELSE occ[letter][i + 1]

update_range_no_plus_one(begin, end, letter, occ, count, length) ==
    [begin |-> count[letter] + use_occ(occ, letter, begin - 1, length),
     end   |-> count[letter] + use_occ(occ, letter, end, length)]

update_range(begin, end, letter, occ, count, length) ==
    [begin |-> count[letter] + use_occ(occ, letter, begin - 1, length) + 1,
     end   |-> count[letter] + use_occ(occ, letter, end, length)]

Partial(q, b, e, mm) == [query |-> q, begin |-> b, end |-> e, mismatches |-> mm]

Max(a, b) == IF a >= b THEN a ELSE b

\* if not set(query) <= alphabet: return []
alphabet_check_last_only(q, alphabet) ==
    Len(q) = 0 \/ q[Len(q)] \in alphabet

QueryInAlphabet(q, alphabet) == Range(q) \subseteq alphabet

\* query = p.query[:-1]
rest_not_shortened(q) == q

RestOfQuery(q) == SubSeq(q, 1, Len(q) - 1)

\* letters = [curletter] if p.mismatches == 0 else alphabet, with the set
\* iterated in the order `order`
letters_swapped(mm, curletter, order) ==
    IF mm = 0 THEN order ELSE <<curletter>>

Letters(mm, curletter, order) ==
    IF mm = 0 THEN <<curletter>> ELSE order

\* The orders in which a for loop may iterate over the set S.
Orders(S) ==
    {f \in [1..Cardinality(S) -> S] : \A a \in S : \E i \in DOMAIN f : f[i] = a}

\* return sorted(set(results))
return_unsorted(results) == results

ReturnValue(results) == sorted_set(results)

\* ---- state ----------------------------------------------------------------

VARIABLES
    reference,   \* the reference string of this run
    eos,         \* the sentinel the caller gave get_bwt_data, -1 before the call
    build,       \* the caller's get_bwt_data call: "none", "ok", "raised"
    bwt_data,    \* the bundle: the caller's, or the one the call built itself
    phase,       \* bwt_inexact_match: "idle", "search", "done", "raised"
    query,       \* the call's query argument
    mismatches,  \* the call's mismatches argument
    partials,    \* the stack of partial matches
    results,     \* the list of collected offsets
    result,      \* the returned list
    occArgs,     \* the indices the last loop iteration passed to use_occ
    prevK,       \* the budget of the previous call on the same query, -2 if none
    prevResult   \* the list the previous call returned

vars == <<reference, eos, build, bwt_data, phase, query, mismatches,
          partials, results, result, occArgs, prevK, prevResult>>

Init ==
    /\ reference \in Strings(MaxRefLen)
    /\ eos = -1
    /\ build = "none"
    /\ bwt_data = None
    /\ phase = "idle"
    /\ query = <<>>
    /\ mismatches = 0
    /\ partials = <<>>
    /\ results = <<>>
    /\ result = <<>>
    /\ occArgs = {}
    /\ prevK = -2
    /\ prevResult = <<>>

\* ---- get_bwt_data called by the caller ------------------------------------

GetBwtData(e) ==
    /\ phase = "idle"
    /\ build = "none"
    /\ eos' = e
    /\ IF AssertEosNotInReference(reference, e)
       THEN /\ build' = "ok"
            /\ bwt_data' = get_bwt_data(reference, e)
       ELSE /\ build' = "raised"
            /\ bwt_data' = None
    /\ UNCHANGED <<reference, phase, query, mismatches, partials,
                   results, result, occArgs, prevK, prevResult>>

\* ---- bwt_inexact_match: entry, up to the first loop test ------------------

\* The bwt_data argument: the caller passes the bundle it built, or nothing.
Argument == IF build = "ok" THEN bwt_data ELSE None

\* if bwt_data is None: bwt_data = get_bwt_data(reference)
IndexInUse ==
    IF Argument = None THEN get_bwt_data(reference, EOS) ELSE Argument

\* The body of the call up to the loop, for the arguments q and k.  A call
\* that raises leaves nothing behind.
Call(q, k) ==
    IF Argument = None /\ ~AssertEosNotInReference(reference, EOS)
    THEN /\ phase' = "raised"
         /\ bwt_data' = None
         /\ UNCHANGED <<reference, eos, build, query, mismatches, partials,
                        results, result, occArgs>>
    ELSE /\ query' = q
         /\ mismatches' = k
         /\ results' = <<>>
         /\ result' = <<>>
         /\ occArgs' = {}
         /\ bwt_data' = IndexInUse
         /\ IF ~QueryInAlphabet(q, IndexInUse.alphabet)
            THEN /\ phase' = "done"
                 /\ partials' = <<>>
            ELSE /\ phase' = "search"
                 /\ partials' = <<Partial(q, 0, Len(IndexInUse.bwt) - 1, k)>>
         /\ UNCHANGED <<reference, eos, build>>

BwtInexactMatch(q, k) ==
    /\ phase = "idle"
    /\ Call(q, k)
    /\ UNCHANGED <<prevK, prevResult>>

\* A second call with the same query and bundle and a larger budget, once
\* the first has returned.
BwtInexactMatchAgain(k) ==
    /\ phase = "done"
    /\ mismatches >= 0
    /\ k > mismatches
    /\ prevK' = mismatches
    /\ prevResult' = result
    /\ Call(query, k)

\* ---- one iteration of the while loop --------------------------------------

\* The states one expansion of p pushes, in the order it pushes them.
Pushed(p, order) ==
    LET curletter == p.query[Len(p.query)]
        letters == Letters(p.mismatches, curletter, order)
        cand == [i \in 1..Len(letters) |->
                    LET letter == letters[i]
                        mm == IF letter = curletter
                              THEN p.mismatches
                              ELSE Max(0, p.mismatches - 1)
                        r == update_range(p.begin, p.end, letter,
                                          bwt_data.occ, bwt_data.count, Len(bwt_data.bwt))
                    IN  Partial(RestOfQuery(p.query), r.begin, r.end, mm)]
    IN  SelectSeq(cand, LAMBDA c : c.begin <= c.end)

\* The iteration that takes the state at position pos of the collection.
Iterate(pos, order) ==
    LET p == partials[pos]
        others == SubSeq(partials, 1, pos - 1)
                    \o SubSeq(partials, pos + 1, Len(partials))
    IN  IF Len(p.query) = 0
        THEN /\ results' = IF p.begin <= p.end
                           THEN results \o Slice(bwt_data.sa, p.begin, p.end + 1)
                           ELSE results
             /\ partials' = others
             /\ occArgs' = {}
        ELSE /\ partials' = others \o Pushed(p, order)
             /\ occArgs' = {p.begin - 1, p.end}
             /\ UNCHANGED results

\* partials.pop() takes the last element.
Loop ==
    /\ phase = "search"
    /\ Len(partials) > 0
    /\ \E order \in Orders(bwt_data.alphabet) : Iterate(Len(partials), order)
    /\ UNCHANGED <<reference, eos, build, bwt_data, phase, query,
                   mismatches, result, prevK, prevResult>>

\* The same loop over a work collection that hands out any pending state.
LoopAnyOrder ==
    /\ phase = "search"
    /\ Len(partials) > 0
    /\ \E pos \in 1..Len(partials) :
          \E order \in Orders(bwt_data.alphabet) : Iterate(pos, order)
    /\ UNCHANGED <<reference, eos, build, bwt_data, phase, query,
                   mismatches, result, prevK, prevResult>>

\* The loop test fails and the function returns.
Return ==
    /\ phase = "search"
    /\ Len(partials) = 0
    /\ result' = ReturnValue(results)
    /\ phase' = "done"
    /\ UNCHANGED <<reference, eos, build, bwt_data, query, mismatches,
                   partials, results, occArgs, prevK, prevResult>>

Budgets == -1..MaxMismatches

Next ==
    \/ \E e \in Symbols : GetBwtData(e)
    \/ \E q \in Strings(MaxQueryLen) : \E k \in Budgets : BwtInexactMatch(q, k)
    \/ Loop
    \/ Return

NextAnyOrder ==
    \/ \E e \in Symbols : GetBwtData(e)
    \/ \E q \in Strings(MaxQueryLen) : \E k \in Budgets : BwtInexactMatch(q, k)
    \/ LoopAnyOrder
    \/ Return

Spec == Init /\ [][Next]_vars

SpecAnyOrder == Init /\ [][NextAnyOrder]_vars

NextRepeat ==
    \/ Next
    \/ \E k \in Budgets : BwtInexactMatchAgain(k)

SpecRepeat == Init /\ [][NextRepeat]_vars

\* A started call keeps running until it returns.
LiveSpec == Init /\ [][Next]_vars /\ WF_vars(Loop \/ Return)

\* ---- properties -----------------------------------------------------------

\* The offsets at which q lies in R with at most k substituted symbols.
Matches(q, R, k) ==
    {i \in 0..(Len(R) - Len(q)) :
        Cardinality({j \in 1..Len(q) : R[i + j] # q[j]}) <= k}

\* The index in use was built with the default sentinel.
DefaultSentinel == build # "ok" \/ eos = EOS

\* The first state of the stack.
InitialPartial == Partial(query, 0, Len(bwt_data.bwt) - 1, mismatches)

\* C1: a call with the default sentinel, a query over the reference's
\* symbols and a non-negative budget returns exactly the offsets where the
\* query lies in the reference with at most that many substitutions, and
\* every offset 0..len(R) for the empty query.
C1_ExactOffsets ==
    (/\ phase = "done"
     /\ DefaultSentinel
     /\ mismatches >= 0
     /\ Range(query) \subseteq Range(reference))
    => /\ Range(result) = Matches(query, reference, mismatches)
       /\ (query = <<>> => Range(result) = 0..Len(reference))

\* A returned call that found an offset where the query lies with one
\* substituted symbol, and missed another offset of the reference.
C1_Witness ==
    /\ phase = "done"
    /\ DefaultSentinel
    /\ mismatches = 1
    /\ Len(query) = 2
    /\ Len(reference) = 2
    /\ result = <<0>>
    /\ query # reference

C3_Monotone ==
    (/\ phase = "done"
     /\ 0 <= prevK
     /\ prevK <= mismatches)
    => Range(prevResult) \subseteq Range(result)

\* The second call returned strictly more than a non-empty first result.
C3_Witness ==
    /\ phase = "done"
    /\ prevK = 0
    /\ mismatches = 1
    /\ prevResult # <<>>
    /\ Range(prevResult) # Range(result)

\* C4: get_bwt_data with a sentinel that occurs in the reference raises and
\* hands out no bundle, also when bwt_inexact_match builds the index itself,
\* so every bundle a call works on holds a symbol foreign to the reference.
C4_SentinelCollision ==
    /\ (eos \in Range(reference)
            => build = "raised" /\ (phase = "idle" => bwt_data = None))
    /\ (phase # "idle" /\ build # "ok" /\ EOS \in Range(reference)
            => phase = "raised" /\ bwt_data = None)
    /\ (bwt_data # None =>
            \E i \in 1..Len(bwt_data.bwt) :
                bwt_data.bwt[i] \notin Range(reference))

\* The caller's construction raised on a two-symbol reference holding the
\* sentinel.
C4_Witness ==
    /\ build = "raised"
    /\ Len(reference) = 2
    /\ eos \in Range(reference)
    /\ bwt_data = None

\* C5: a call with a negative budget never enters the loop and returns no
\* list.
C5_NegativeBudgetRejected ==
    (phase # "idle" /\ mismatches < 0) => phase \notin {"search", "done"}

\* C6: in every bundle get_bwt_data built over s = reference + sentinel,
\* sa is a permutation of 0..n-1, bwt has length n, bwt[i] is the symbol
\* cyclically before the suffix sa[i], and bwt holds the sentinel exactly
\* once, where sa[i] = 0.
SaBwtAgree(b, s) ==
    LET n == Len(s)
    IN  /\ Len(b.sa) = n
        /\ Len(b.bwt) = n
        /\ Range(b.sa) = 0..(n - 1)
        /\ \A i \in 1..n : b.bwt[i] = s[((b.sa[i] - 1) % n) + 1]
        /\ \A i \in 1..n : (b.bwt[i] = s[n]) <=> (b.sa[i] = 0)
        /\ Cardinality({i \in 1..n : b.bwt[i] = s[n]}) = 1

C6_SaBwt ==
    /\ (build = "ok" => SaBwtAgree(bwt_data, Append(reference, eos)))
    /\ (build # "ok" /\ bwt_data # None
            => SaBwtAgree(bwt_data, Append(reference, EOS)))

\* A bundle over a reference of two equal symbols with a sentinel that
\* compares greater than them.
C6_Witness ==
    /\ build = "ok"
    /\ Len(reference) = 2
    /\ reference[1] = reference[2]
    /\ eos > reference[1]

\* C7: the suffix array of every bundle get_bwt_data built starts with
\* len(reference), the suffix that holds the sentinel alone.
C7_SentinelFirst ==
    build = "ok" => bwt_data.sa[1] = Len(reference)

\* The offsets the expansion of p leads to, whatever the order.
RECURSIVE BranchOffsets(_)
BranchOffsets(p) ==
    IF Len(p.query) = 0
    THEN Range(Slice(bwt_data.sa, p.begin, p.end + 1))
    ELSE UNION {BranchOffsets(c) :
                  c \in Range(Pushed(p, CHOOSE o \in Orders(bwt_data.alphabet) : TRUE))}

\* C8: whatever pending state each iteration takes and in whatever order
\* it iterates the alphabet, the returned list is the strictly ascending
\* list of the offsets of the branches of the initial state.
C8_OrderIndependent ==
    (phase = "done" /\ Range(query) \subseteq bwt_data.alphabet)
    => /\ \A i \in 1..(Len(result) - 1) : result[i] < result[i + 1]
       /\ Range(result) = BranchOffsets(InitialPartial)

\* A returned call whose branches were collected out of ascending order.
C8_Witness ==
    /\ phase = "done"
    /\ mismatches = 1
    /\ Len(results) = 2
    /\ results[1] > results[2]
    /\ result # results

\* C9: a started search returns; every iteration that expands a state
\* pushes only states whose query is one symbol shorter, and an iteration
\* on a state with an empty query pushes nothing.
C9_Terminates ==
    /\ (phase = "search") ~> (phase = "done")
    /\ [][(phase = "search" /\ phase' = "search") =>
            LET top == Len(partials)
                p == partials[top]
            IN  /\ \A i \in top..Len(partials') :
                      Len(partials'[i].query) = Len(p.query) - 1
                /\ (Len(p.query) = 0 => Len(partials') = top - 1)]_vars

\* A search over a two-symbol query with a budget has returned offsets.
C9_Witness ==
    /\ phase = "done"
    /\ Len(query) = 2
    /\ mismatches = 1
    /\ Len(result) >= 1
    /\ Len(results) >= 1

\* C10: in a search with a non-negative budget every state on the stack
\* but the initial one has 1 <= begin <= end <= len(bwt) - 1 and
\* 0 <= mismatches <= budget, and use_occ gets only indices in
\* -1..len(bwt) - 1.
C10_Bounds ==
    (phase \in {"search", "done"} /\ mismatches >= 0)
    => /\ \A i \in 1..Len(partials) :
             \/ (partials[i] = InitialPartial /\ results = <<>> /\ occArgs = {})
             \/ /\ 1 <= partials[i].begin
                /\ partials[i].begin <= partials[i].end
                /\ partials[i].end <= Len(bwt_data.bwt) - 1
                /\ 0 <= partials[i].mismatches
                /\ partials[i].mismatches <= mismatches
       /\ occArgs \subseteq -1..(Len(bwt_data.bwt) - 1)

\* An expansion of the initial state that pushed two states.
C10_Witness ==
    /\ phase = "search"
    /\ mismatches = 1
    /\ Len(partials) = 2
    /\ occArgs = {-1, Len(bwt_data.bwt) - 1}
    /\ partials[1].mismatches # partials[2].mismatches

====
